---- MODULE Spec2Model ----
(***************************************************************************)
(* The Lists object handler of pnp-js-provisioning                         *)
(* (src/handlers/lists.ts and its shipped build lib/handlers/lists.js):    *)
(* ProvisionObjects and the chained remote calls it issues, the list cache *)
(* this.lists, and the token replacer replaceFieldXmlTokens.               *)
(*                                                                         *)
(* Strings are sequences of one-character strings, so that the regular     *)
(* expression, String.replace and String.indexOf are computed character by *)
(* character.                                                              *)
(***************************************************************************)
EXTENDS Naturals, Integers, Sequences, FiniteSets, TLC

VARIABLES
    build,        \* which file runs: "ts" (src/handlers/lists.ts) or "js" (lib/handlers/lists.js)
    lists,        \* the configuration handed to ProvisionObjects (IList[])
    site,         \* the remote SharePoint web, as the client library's calls see it
    cache,        \* this.lists
    pc,           \* where the handler's async chain waits: the call it awaits
    calls,        \* every remote call issued so far, in issue order, with its outcome
    run,          \* number of ProvisionObjects calls made on this handler
    result,       \* how the promise of the current ProvisionObjects call stands
    error,        \* the error it rejected with (the number of the failed call)
    scope,        \* [started, ended]: calls of scope_started / scope_ended in this run
    faults,       \* injected remote failures so far
    firstRun,     \* how the first run ended: its result and the site it left
    segs,         \* replaceFieldXmlTokens alone: the argument, as its segments
    fieldXml,     \* replaceFieldXmlTokens alone: the local fieldXml
    lastIndex,    \* this.tokenRegex.lastIndex
    tokPc         \* replaceFieldXmlTokens alone: "idle", "loop" or "returned"

vars == <<build, lists, site, cache, pc, calls, run, result, error, scope,
          faults, firstRun, segs, fieldXml, lastIndex, tokPc>>

(***************************************************************************)
(* Bounds of the model.                                                    *)
(***************************************************************************)
MaxRuns == 2
MaxFaults == 2
MaxSegs == 3

(***************************************************************************)
(* Strings.                                                                *)
(***************************************************************************)
RECURSIVE Flatten(_)
Flatten(ss) == IF ss = <<>> THEN <<>> ELSE Head(ss) \o Flatten(Tail(ss))

\* String.prototype.indexOf(pat), 0-based, -1 when absent.
IndexOf(s, pat) ==
    LET hits == {i \in 1..(Len(s) + 1 - Len(pat)) : SubSeq(s, i, i + Len(pat) - 1) = pat}
    IN  IF hits = {} THEN -1
        ELSE (CHOOSE i \in hits : \A j \in hits : i <= j) - 1

Contains(s, pat) == IndexOf(s, pat) # -1

\* String.prototype.replace(pat, rep) with a string pattern: the FIRST
\* occurrence only.  rep is inserted as it stands: the identifiers of the
\* model hold no "$", so no replacement pattern ($&, $$, ...) is expanded.
StringReplace(s, pat, rep) ==
    LET i == IndexOf(s, pat)
    IN  IF i = -1 THEN s
        ELSE SubSeq(s, 1, i) \o rep \o SubSeq(s, i + Len(pat) + 1, Len(s))

(***************************************************************************)
(* tokenRegex = /{[a-z]*:[...A-za-z ]*}/g                                  *)
(* The classes are written out over ASCII; the six Nordic letters and the  *)
(* backtick of the source's class are no characters of the model.          *)
(***************************************************************************)
LowerAZ == {"a","b","c","d","e","f","g","h","i","j","k","l","m",
            "n","o","p","q","r","s","t","u","v","w","x","y","z"}
UpperAZ == {"A","B","C","D","E","F","G","H","I","J","K","L","M",
            "N","O","P","Q","R","S","T","U","V","W","X","Y","Z"}
ValueChars == UpperAZ \cup {"[", "\\", "]", "^", "_"} \cup LowerAZ \cup {" "}

\* Length of the longest run of characters of class cls in s from position i (1-based).
RunLen(s, i, cls) ==
    CHOOSE n \in 0..(Len(s) + 1 - i) :
        /\ \A k \in 0..(n - 1) : s[i + k] \in cls
        /\ (i + n > Len(s) \/ s[i + n] \notin cls)

\* Length of the regex's match starting exactly at position i (1-based), 0 if none.
\* Neither ":" nor "}" is in the class before it, so the greedy runs decide.
MatchLenAt(s, i) ==
    IF i > Len(s) \/ s[i] # "{" THEN 0
    ELSE LET a == RunLen(s, i + 1, LowerAZ)
             c == i + 1 + a
         IN  IF c > Len(s) \/ s[c] # ":" THEN 0
             ELSE LET b == RunLen(s, c + 1, ValueChars)
                      e == c + 1 + b
                  IN  IF e > Len(s) \/ s[e] # "}" THEN 0 ELSE e - i + 1

\* RegExp.prototype.exec of a global regex: the search starts at lastIndex;
\* no match resets lastIndex to 0, a match sets it to the end of the match.
RegexExec(s, li) ==
    LET hits == {i \in (li + 1)..Len(s) : MatchLenAt(s, i) > 0}
    IN  IF hits = {} THEN [found |-> FALSE, index |-> 0, match |-> <<>>, lastIndex |-> 0]
        ELSE LET i == CHOOSE i \in hits : \A j \in hits : i <= j
                 n == MatchLenAt(s, i)
             IN  [found |-> TRUE, index |-> i - 1, match |-> SubSeq(s, i, i + n - 1),
                  lastIndex |-> i - 1 + n]

\* match.replace(/[\{\}]/g, "").split(":"): [Type, Value]
StripBraces(m) == SelectSeq(m, LAMBDA ch : ch \notin {"{", "}"})

SplitColon(m) ==
    LET t == StripBraces(m)
        c == IndexOf(t, <<":">>)
        rest == SubSeq(t, c + 2, Len(t))
        d == IndexOf(rest, <<":">>)
    IN  [Type  |-> SubSeq(t, 1, c),
         Value |-> IF d = -1 THEN rest ELSE SubSeq(rest, 1, d)]

ListIdType == <<"l","i","s","t","i","d">>

\* this.lists.filter(l => l.Title === Value)
FilterByTitle(ls, value) == SelectSeq(ls, LAMBDA l : l.Title = value)

\* if (list.length === 1)
FoundLength1Mutant(list) == Len(list) >= 1
FoundLength1(list) == Len(list) = 1

\* switch (Type) { case "listid": ... }
IsListId(type) == type = ListIdType

\* The body of m.forEach for the one element of m (the regex has no group).
ReplaceMatch(xml, match, ls) ==
    LET tv   == SplitColon(match)
        list == FilterByTitle(ls, tv.Value)
    IN  IF IsListId(tv.Type) /\ FoundLength1(list)
        THEN StringReplace(xml, match, list[1].Id)
        ELSE xml

\* One evaluation of the while condition and, on a match, the loop body.
\* st = [fieldXml, lastIndex, done].
TokenLoopStep(st, ls) ==
    LET m == RegexExec(st.fieldXml, st.lastIndex)
    IN  IF ~m.found
        THEN [fieldXml |-> st.fieldXml, lastIndex |-> m.lastIndex, done |-> TRUE]
        ELSE [fieldXml  |-> ReplaceMatch(st.fieldXml, m.match, ls),
              lastIndex |-> IF m.index = m.lastIndex THEN m.lastIndex + 1 ELSE m.lastIndex,
              done      |-> FALSE]

RECURSIVE TokenLoop(_, _)
TokenLoop(st, ls) == IF st.done THEN st ELSE TokenLoop(TokenLoopStep(st, ls), ls)

\* replaceFieldXmlTokens(fieldXml), called with tokenRegex.lastIndex = li.
ReplaceFieldXmlTokens(xml, ls, li) ==
    TokenLoop([fieldXml |-> xml, lastIndex |-> li, done |-> FALSE], ls)

(***************************************************************************)
(* Configuration (schema IList) and the values the model draws it from.    *)
(***************************************************************************)
Some(x) == [def |-> TRUE, val |-> x]
None == [def |-> FALSE, val |-> <<>>]      \* a property left undefined

TitleA == <<"A">>
TitleB == <<"B">>
AllTitles == {TitleA, TitleB}

TokListIdA == <<"{","l","i","s","t","i","d",":","A","}">>
TokListIdB == <<"{","l","i","s","t","i","d",":","B","}">>
TokWebA    == <<"{","w","e","b",":","A","}">>

CtItem     == <<"0","x","0","1">>
CtDocument == <<"0","x","0","1","0","1">>
CtFolder   == <<"0","x","0","1","2","0">>
CtTask     == <<"0","x","0","1","0","8">>

\* A field as xml2json parses its <Field .../> element: the attributes.
FieldLookupB == [ID |-> <<"f","1">>, InternalName |-> <<"L","k">>,
                 DisplayName |-> <<"L","o","o","k">>, List |-> TokListIdB]
FieldLookupA == [ID |-> <<"f","2">>, InternalName |-> <<"S","f">>,
                 DisplayName |-> <<"S","e","l","f">>, List |-> TokListIdA]

FieldRefTitle == [ID |-> <<"r","1">>, Hidden |-> FALSE, Required |-> TRUE,
                  DisplayName |-> <<"N","a","m","e">>]

ViewAll  == [Title |-> <<"A","l","l">>, ViewFields |-> <<"Title", "Status">>]
ViewNone == [Title |-> <<"M","y">>, ViewFields |-> <<>>]

ListA == [Title |-> TitleA,
          ContentTypeBindings |-> Some(<<[ContentTypeID |-> CtDocument]>>),
          RemoveExistingContentTypes |-> TRUE,
          Fields |-> Some(<<FieldLookupB>>), FieldRefs |-> None,
          Views |-> Some(<<ViewAll>>)]
ListB == [Title |-> TitleB,
          ContentTypeBindings |-> None, RemoveExistingContentTypes |-> TRUE,
          Fields |-> None, FieldRefs |-> Some(<<FieldRefTitle>>),
          Views |-> None]
ListSelf == [Title |-> TitleA,
             ContentTypeBindings |-> Some(<<>>), RemoveExistingContentTypes |-> FALSE,
             Fields |-> Some(<<FieldLookupA, FieldLookupB>>), FieldRefs |-> Some(<<>>),
             Views |-> Some(<<>>)]
ListViews == [Title |-> TitleB,
              ContentTypeBindings |-> Some(<<[ContentTypeID |-> CtItem]>>),
              RemoveExistingContentTypes |-> FALSE,
              Fields |-> None, FieldRefs |-> None,
              Views |-> Some(<<ViewNone, ViewAll>>)]

Configurations == { <<>>, <<ListA, ListB>>, <<ListSelf>>, <<ListViews>> }

(***************************************************************************)
(* The remote web.  Only what the handler's calls read or write is kept.   *)
(* The client library (sp-pnp-js) and SharePoint are no code of this       *)
(* repository: each operator below is the effect of one call the handler   *)
(* makes, at the line that makes it.                                       *)
(***************************************************************************)
\* The identifier SharePoint gives a list (data.Id of web.lists.ensure).
ListGuid(title) == <<"9","c","-">> \o title \o <<"-","4","e","0","1","7","a">>

\* Content types a list of the default template starts with (children of
\* Item, Task and Folder).
DefaultContentTypes == << CtItem \o <<"0","0","A">>, CtTask \o <<"0","0","B">>,
                          CtFolder \o <<"0","0","F">> >>

EmptySite == [lists |-> {}, cts |-> [t \in AllTitles |-> <<>>], fields |-> {},
              fieldRefs |-> {}, views |-> <<>>]

\* A web provisioned before by other means: list A with a view and a field.
UsedSite == [lists |-> {TitleA},
             cts |-> [t \in AllTitles |-> IF t = TitleA THEN DefaultContentTypes ELSE <<>>],
             fields |-> {[List |-> TitleA, ID |-> <<"f","1">>, Xml |-> <<"o","l","d">>,
                          Title |-> <<"o","l","d">>]},
             fieldRefs |-> {},
             views |-> <<[List |-> TitleA, Title |-> <<"A","l","l">>, Fields |-> <<"ID">>]>>]

Sites == {EmptySite, UsedSite}

\* web.lists.ensure(Title, ...): creates the list when it is missing.
SiteEnsure(s, title) ==
    IF title \in s.lists THEN s
    ELSE [s EXCEPT !.lists = @ \cup {title}, !.cts[title] = DefaultContentTypes]

\* data of the ensure result: the list's metadata.
EnsureData(title) == [Title |-> title, Id |-> ListGuid(title)]

\* list.contentTypes.addAvailableContentType(id): the list gets a child of it.
SiteAddContentType(s, title, ct) ==
    LET child == ct \o <<"0","0","C">>
    IN  IF \E i \in 1..Len(s.cts[title]) : s.cts[title][i] = child THEN s
        ELSE [s EXCEPT !.cts[title] = Append(@, child)]

\* list.contentTypes.getById(id).delete()
SiteDeleteContentType(s, title, ct) ==
    [s EXCEPT !.cts[title] = SelectSeq(@, LAMBDA c : c # ct)]

FieldExists(s, title, id) == \E f \in s.fields : f.List = title /\ f.ID = id

\* field.delete()
SiteDeleteField(s, title, id) ==
    [s EXCEPT !.fields = {f \in @ : ~(f.List = title /\ f.ID = id)}]

\* list.fields.createFieldAsXml(xml)
SiteCreateField(s, title, id, xml, name) ==
    [s EXCEPT !.fields = {f \in @ : ~(f.List = title /\ f.ID = id)}
                          \cup {[List |-> title, ID |-> id, Xml |-> xml, Title |-> name]}]

\* fieldAddResult.field.update({ Title })
SiteUpdateField(s, title, id, name) ==
    [s EXCEPT !.fields = {IF f.List = title /\ f.ID = id THEN [f EXCEPT !.Title = name] ELSE f
                          : f \in @}]

\* list.fields.getById(fieldRef.ID).update({ Hidden, Required, Title })
SiteUpdateFieldRef(s, title, ref) ==
    [s EXCEPT !.fieldRefs = {r \in @ : ~(r.List = title /\ r.ID = ref.ID)}
                             \cup {[List |-> title, ID |-> ref.ID, Hidden |-> ref.Hidden,
                                    Required |-> ref.Required, Title |-> ref.DisplayName]}]

ViewIndexes(s, title, vtitle) ==
    {i \in 1..Len(s.views) : s.views[i].List = title /\ s.views[i].Title = vtitle}

ViewExists(s, title, vtitle) == ViewIndexes(s, title, vtitle) # {}

\* The view a processViewFields call works on: views.getByTitle's (the first
\* of that title) on the update path, result.view (the one just added) on the
\* create path.
TargetViewFirst(s, title, vtitle, path) ==
    LET ix == ViewIndexes(s, title, vtitle)
    IN  CHOOSE i \in ix : \A j \in ix : i <= j
TargetView(s, title, vtitle, path) ==
    LET ix == ViewIndexes(s, title, vtitle)
    IN  IF path = "try" THEN CHOOSE i \in ix : \A j \in ix : i <= j
        ELSE CHOOSE i \in ix : \A j \in ix : i >= j

\* views.add(Title, PersonalView, AdditionalSettings): a new view with the
\* template's default field.
SiteAddView(s, title, vtitle) ==
    [s EXCEPT !.views = Append(@, [List |-> title, Title |-> vtitle, Fields |-> <<"LinkTitle">>])]

\* view.fields.removeAll()
SiteRemoveAllViewFields(s, i) == [s EXCEPT !.views[i].Fields = <<>>]

\* view.fields.add(viewField)
SiteAddViewField(s, i, f) == [s EXCEPT !.views[i].Fields = Append(@, f)]

(***************************************************************************)
(* The handler: ProvisionObjects and the chain of awaited calls.           *)
(* A position is the call the chain awaits: [op, p, li, k, vf, path, n],   *)
(* p the phase (an index of PhaseOrder), li the list, k the item of the    *)
(* list (binding, field, field ref, view), vf the view field, path the     *)
(* block of processView ("try"/"catch"), n the call's number in calls.     *)
(***************************************************************************)
\* The four reduce chains of ProvisionObjects, in the order they are awaited.
PhaseOrderFieldsFirst == <<"fields", "lists", "fieldRefs", "views">>
PhaseOrder == <<"lists", "fields", "fieldRefs", "views">>

Idle == [op |-> "none", p |-> 0, li |-> 0, k |-> 0, vf |-> 0, path |-> "none", n |-> 0]
At(op, p, li, k, vf, path) ==
    [op |-> op, p |-> p, li |-> li, k |-> k, vf |-> vf, path |-> path, n |-> 0]
Resolve == [Idle EXCEPT !.op = "resolve"]
Reject  == [Idle EXCEPT !.op = "reject"]

\* if (list.Fields) / if (list.FieldRefs) / if (listConfig.Views), and a
\* reduce over an empty array, which resolves at once.
HasItems(phase, l) ==
    CASE phase = "lists"     -> TRUE
      [] phase = "fields"    -> l.Fields.def /\ Len(l.Fields.val) > 0
      [] phase = "fieldRefs" -> l.FieldRefs.def /\ Len(l.FieldRefs.val) > 0
      [] phase = "views"     -> l.Views.def /\ Len(l.Views.val) > 0

FirstOp(phase) ==
    CASE phase = "lists"     -> "ensure"
      [] phase = "fields"    -> "fields.getById"
      [] phase = "fieldRefs" -> "fieldRef.update"
      [] phase = "views"     -> "view.get"

\* The next call of the chains from list li of phase p on; Resolve after the last.
RECURSIVE ChainFrom(_, _, _)
ChainFrom(ls, p, li) ==
    IF p > Len(PhaseOrder) THEN Resolve
    ELSE IF li > Len(ls) THEN ChainFrom(ls, p + 1, 1)
    ELSE IF HasItems(PhaseOrder[p], ls[li])
         THEN At(FirstOp(PhaseOrder[p]), p, li, 1, 0,
                 IF PhaseOrder[p] = "views" THEN "try" ELSE "none")
    ELSE ChainFrom(ls, p, li + 1)

\* processContentTypeBindings after the bindings' chain: if (removeExisting)
AfterBindings(ls, at) ==
    IF ls[at.li].RemoveExistingContentTypes
    THEN At("contentTypes.get", at.p, at.li, 0, 0, "none")
    ELSE ChainFrom(ls, at.p, at.li + 1)

\* processList after ensure: processContentTypeBindings, if (contentTypeBindings)
AfterEnsure(ls, at) ==
    LET b == ls[at.li].ContentTypeBindings
    IN  IF ~b.def THEN ChainFrom(ls, at.p, at.li + 1)
        ELSE IF Len(b.val) > 0 THEN At("addAvailableContentType", at.p, at.li, 1, 0, "none")
        ELSE AfterBindings(ls, at)

\* shouldRemove of processContentTypeBindings
ShouldRemoveUnbound(bindings, ContentTypeId) ==
    Len(SelectSeq(bindings, LAMBDA ctb : IndexOf(ContentTypeId, ctb.ContentTypeID) # -1)) = 0
ShouldRemove(bindings, ContentTypeId) ==
    /\ Len(SelectSeq(bindings, LAMBDA ctb : IndexOf(ContentTypeId, ctb.ContentTypeID) # -1)) = 0
    /\ IndexOf(ContentTypeId, CtFolder) = -1

\* try { getById; delete } catch: the source swallows the error, the shipped
\* build logs and rethrows it.
FieldCatchIn(b, at) ==
    IF b = "ts" THEN At("createFieldAsXml", at.p, at.li, at.k, 0, "none")
    ELSE Reject

FieldCatch(at) == FieldCatchIn(build, at)

\* processView's catch: whatever failed in the try block, the view is added.
\* A failure in the catch block itself is not caught.
ViewCatch(at) ==
    IF at.path = "try" THEN At("views.add", at.p, at.li, at.k, 0, "catch") ELSE Reject

EndView(ls, at) ==
    IF at.k < Len(ls[at.li].Views.val) THEN At("view.get", at.p, at.li, at.k + 1, 0, "try")
    ELSE ChainFrom(ls, at.p, at.li + 1)

\* await web.lists.ensure(...) throws: processList rejects, and with it the chain.
EnsureFailedSwallowed(ls, at) == ChainFrom(ls, at.p, at.li + 1)
EnsureFailed(ls, at) == Reject

\* Where the chain of build b goes when the awaited call at `at` settles (ok
\* or not).  contentTypes.get and the deletes under Promise.all are in their
\* actions.
ContinueIn(b, ls, at, ok) ==
    CASE at.op = "ensure" -> IF ok THEN AfterEnsure(ls, at) ELSE EnsureFailed(ls, at)
      [] at.op = "addAvailableContentType" ->
            IF ~ok THEN Reject
            ELSE IF at.k < Len(ls[at.li].ContentTypeBindings.val)
                 THEN At(at.op, at.p, at.li, at.k + 1, 0, "none")
                 ELSE AfterBindings(ls, at)
      [] at.op = "fields.getById" ->
            IF ok THEN At("field.delete", at.p, at.li, at.k, 0, "none") ELSE FieldCatchIn(b, at)
      [] at.op = "field.delete" ->
            IF ok THEN At("createFieldAsXml", at.p, at.li, at.k, 0, "none") ELSE FieldCatchIn(b, at)
      [] at.op = "createFieldAsXml" ->
            IF ok THEN At("field.update", at.p, at.li, at.k, 0, "none") ELSE Reject
      [] at.op = "field.update" ->
            IF ~ok THEN Reject
            ELSE IF at.k < Len(ls[at.li].Fields.val)
                 THEN At("fields.getById", at.p, at.li, at.k + 1, 0, "none")
                 ELSE ChainFrom(ls, at.p, at.li + 1)
      [] at.op = "fieldRef.update" ->
            IF ~ok THEN Reject
            ELSE IF at.k < Len(ls[at.li].FieldRefs.val)
                 THEN At(at.op, at.p, at.li, at.k + 1, 0, "none")
                 ELSE ChainFrom(ls, at.p, at.li + 1)
      [] at.op = "view.get" ->
            IF ok THEN At("view.update", at.p, at.li, at.k, 0, "try") ELSE ViewCatch(at)
      [] at.op = "view.update" ->
            IF ok THEN At("viewFields.removeAll", at.p, at.li, at.k, 0, "try") ELSE ViewCatch(at)
      [] at.op = "views.add" ->
            IF ok THEN At("viewFields.removeAll", at.p, at.li, at.k, 0, "catch") ELSE Reject
      [] at.op = "viewFields.removeAll" ->
            IF ~ok THEN ViewCatch(at)
            ELSE IF Len(ls[at.li].Views.val[at.k].ViewFields) > 0
                 THEN At("viewFields.add", at.p, at.li, at.k, 1, at.path)
                 ELSE EndView(ls, at)
      [] at.op = "viewFields.add" ->
            IF ~ok THEN ViewCatch(at)
            ELSE IF at.vf < Len(ls[at.li].Views.val[at.k].ViewFields)
                 THEN At(at.op, at.p, at.li, at.k, at.vf + 1, at.path)
                 ELSE EndView(ls, at)

\* The chain of the build that runs.
Continue(ls, at, ok) == ContinueIn(build, ls, at, ok)

\* fieldXml = xmljs.json2xml(fXmlJson): the element written out again.
Json2Xml(f) ==
    <<"<","F","i","e","l","d"," ","I","D","=","\"">> \o f.ID
    \o <<"\""," ","N","a","m","e","=","\"">> \o f.InternalName
    \o <<"\""," ","D","i","s","p","l","a","y","N","a","m","e","=","\"">> \o f.DisplayName
    \o <<"\""," ","L","i","s","t","=","\"">> \o f.List \o <<"\"","/",">">>

\* this.lists.push(data)
CacheAssign(c, data) == <<data>>
CachePushFront(c, data) == <<data>> \o c
CachePush(c, data) == Append(c, data)

(***************************************************************************)
(* Remote calls: issue and outcome.                                        *)
(***************************************************************************)
\* The outcomes a call may have: it succeeds when the web allows it (can),
\* it fails when the web refuses it or a failure is injected.
Outcomes(can) == {ok \in BOOLEAN : IF ok THEN can ELSE (~can \/ faults < MaxFaults)}

\* The record of a call as it is issued.  createFieldAsXml's argument is
\* this.replaceFieldXmlTokens(fieldXml), evaluated when the call is made.
Entry(ls, at, c, r) ==
    [run |-> r, p |-> at.p, li |-> at.li, k |-> at.k, op |-> at.op, path |-> at.path,
     title |-> ls[at.li].Title,
     arg |-> IF at.op = "createFieldAsXml"
             THEN ReplaceFieldXmlTokens(Json2Xml(ls[at.li].Fields.val[at.k]), c, 0).fieldXml
             ELSE <<>>,
     st |-> "inflight"]

\* The chain moves to `target`: the next call is issued, or ProvisionObjects
\* settles (scope_ended is called on both ways out).
SettleEndsOnResolveOnly(calls0, scope0, target, errNo) ==
    IF target.op = "resolve"
    THEN /\ pc' = Idle /\ calls' = calls0 /\ result' = "resolved" /\ error' = 0
         /\ scope' = [scope0 EXCEPT !.ended = @ + 1]
    ELSE IF target.op = "reject"
    THEN /\ pc' = Idle /\ calls' = calls0 /\ result' = "rejected" /\ error' = errNo
         /\ scope' = scope0
    ELSE /\ pc' = [target EXCEPT !.n = Len(calls0) + 1]
         /\ calls' = Append(calls0, Entry(lists, target, cache', run'))
         /\ result' = "pending" /\ error' = 0
         /\ scope' = scope0
Settle(calls0, scope0, target, errNo) ==
    IF target.op = "resolve"
    THEN /\ pc' = Idle /\ calls' = calls0 /\ result' = "resolved" /\ error' = 0
         /\ scope' = [scope0 EXCEPT !.ended = @ + 1]
    ELSE IF target.op = "reject"
    THEN /\ pc' = Idle /\ calls' = calls0 /\ result' = "rejected" /\ error' = errNo
         /\ scope' = [scope0 EXCEPT !.ended = @ + 1]
    ELSE /\ pc' = [target EXCEPT !.n = Len(calls0) + 1]
         /\ calls' = Append(calls0, Entry(lists, target, cache', run'))
         /\ result' = "pending" /\ error' = 0
         /\ scope' = scope0

NoteFirstRun ==
    firstRun' = IF run' = 1 /\ result' # "pending"
                THEN [result |-> result', site |-> site']
                ELSE firstRun

Mark(n, ok) == [calls EXCEPT ![n].st = IF ok THEN "ok" ELSE "failed"]

\* The awaited call `op` settles: with success the web becomes site2 and the
\* cache cache2, and the chain continues.
Returns(op, can, site2, cache2) ==
    /\ result = "pending"
    /\ pc.op = op
    /\ UNCHANGED <<build, lists, run, segs, fieldXml, lastIndex, tokPc>>
    /\ \E ok \in Outcomes(can) :
          /\ site' = IF ok THEN site2 ELSE site
          /\ cache' = IF ok THEN cache2 ELSE cache
          /\ faults' = IF ~ok /\ can THEN faults + 1 ELSE faults
          /\ Settle(Mark(pc.n, ok), scope, Continue(lists, pc, ok), pc.n)
    /\ NoteFirstRun

CurList == lists[pc.li]
CurField == CurList.Fields.val[pc.k]
CurView == CurList.Views.val[pc.k]

(***************************************************************************)
(* Actions.                                                                *)
(***************************************************************************)
\* ProvisionObjects(web, lists) is called on the handler (not while a call
\* of it is pending): scope_started, then the first chain starts.
ProvisionObjects ==
    /\ tokPc = "idle"
    /\ result # "pending"
    /\ run < MaxRuns
    /\ run' = run + 1
    /\ UNCHANGED <<build, lists, site, cache, faults, segs, fieldXml, lastIndex, tokPc>>
    /\ Settle(calls, [started |-> 1, ended |-> 0], ChainFrom(lists, 1, 1), 0)
    /\ NoteFirstRun

EnsureReturns ==
    Returns("ensure", TRUE, SiteEnsure(site, CurList.Title),
            CachePush(cache, EnsureData(CurList.Title)))

AddAvailableContentTypeReturns ==
    Returns("addAvailableContentType", TRUE,
            SiteAddContentType(site, CurList.Title,
                               CurList.ContentTypeBindings.val[pc.k].ContentTypeID),
            cache)

\* list.contentTypes.get() returns: every content type to remove gets its
\* delete issued at once (promises.push), and Promise.all is awaited.
ContentTypesGetReturns ==
    /\ result = "pending"
    /\ pc.op = "contentTypes.get"
    /\ UNCHANGED <<build, lists, site, cache, run, segs, fieldXml, lastIndex, tokPc>>
    /\ \E ok \in Outcomes(TRUE) :
          LET calls1 == Mark(pc.n, ok)
              remove == SelectSeq(site.cts[CurList.Title],
                                  LAMBDA c : ShouldRemove(CurList.ContentTypeBindings.val, c))
              at     == At("contentType.delete", pc.p, pc.li, 0, 0, "none")
          IN  /\ faults' = IF ok THEN faults ELSE faults + 1
              /\ IF ~ok THEN Settle(calls1, scope, Reject, pc.n)
                 ELSE IF remove = <<>>
                 THEN Settle(calls1, scope, ChainFrom(lists, pc.p, pc.li + 1), pc.n)
                 ELSE /\ pc' = at
                      /\ calls' = calls1 \o [i \in 1..Len(remove) |->
                                     [Entry(lists, at, cache, run) EXCEPT !.arg = remove[i]]]
                      /\ UNCHANGED <<result, error, scope>>
    /\ NoteFirstRun

\* One of the deletes in flight settles.  While its Promise.all is awaited,
\* the first failure rejects it and the last success resolves it; a delete
\* left in flight by a rejected Promise.all settles unobserved.
ContentTypeDeleteReturns ==
    \E n \in 1..Len(calls) :
       /\ calls[n].op = "contentType.delete"
       /\ calls[n].st = "inflight"
       /\ UNCHANGED <<build, lists, run, segs, fieldXml, lastIndex, tokPc>>
       /\ \E ok \in Outcomes(TRUE) :
             LET calls1  == Mark(n, ok)
                 awaited == /\ result = "pending" /\ pc.op = "contentType.delete"
                            /\ calls[n].run = run
                 last    == \A j \in 1..Len(calls1) :
                               ~(calls1[j].op = "contentType.delete"
                                 /\ calls1[j].st = "inflight" /\ calls1[j].run = run)
             IN  /\ site' = IF ok THEN SiteDeleteContentType(site, calls[n].title, calls[n].arg)
                            ELSE site
                 /\ cache' = cache
                 /\ faults' = IF ok THEN faults ELSE faults + 1
                 /\ IF awaited /\ ~ok THEN Settle(calls1, scope, Reject, n)
                    ELSE IF awaited /\ last
                    THEN Settle(calls1, scope, ChainFrom(lists, pc.p, pc.li + 1), n)
                    ELSE /\ calls' = calls1
                         /\ UNCHANGED <<pc, result, error, scope>>
       /\ NoteFirstRun

FieldGetByIdReturns == Returns("fields.getById", TRUE, site, cache)

FieldDeleteReturns ==
    Returns("field.delete", FieldExists(site, CurList.Title, CurField.ID),
            SiteDeleteField(site, CurList.Title, CurField.ID), cache)

CreateFieldAsXmlReturns ==
    Returns("createFieldAsXml", TRUE,
            SiteCreateField(site, CurList.Title, CurField.ID, calls[pc.n].arg,
                            CurField.DisplayName),
            cache)

FieldUpdateReturns ==
    Returns("field.update", TRUE,
            SiteUpdateField(site, CurList.Title, CurField.ID, CurField.DisplayName), cache)

FieldRefUpdateReturns ==
    Returns("fieldRef.update", TRUE,
            SiteUpdateFieldRef(site, CurList.Title, CurList.FieldRefs.val[pc.k]), cache)

ViewGetReturns ==
    Returns("view.get", ViewExists(site, CurList.Title, CurView.Title), site, cache)

ViewUpdateReturns ==
    Returns("view.update", ViewExists(site, CurList.Title, CurView.Title), site, cache)

ViewsAddReturns ==
    Returns("views.add", TRUE, SiteAddView(site, CurList.Title, CurView.Title), cache)

ViewFieldsRemoveAllReturns ==
    Returns("viewFields.removeAll", ViewExists(site, CurList.Title, CurView.Title),
            SiteRemoveAllViewFields(site,
                TargetView(site, CurList.Title, CurView.Title, pc.path)),
            cache)

ViewFieldsAddReturns ==
    Returns("viewFields.add", ViewExists(site, CurList.Title, CurView.Title),
            SiteAddViewField(site, TargetView(site, CurList.Title, CurView.Title, pc.path),
                             CurView.ViewFields[pc.vf]),
            cache)

Init ==
    /\ build \in {"ts", "js"}
    /\ lists \in Configurations
    /\ site \in Sites
    /\ cache = <<>>
    /\ pc = Idle
    /\ calls = <<>>
    /\ run = 0
    /\ result = "none"
    /\ error = 0
    /\ scope = [started |-> 0, ended |-> 0]
    /\ faults = 0
    /\ firstRun = [result |-> "none", site |-> EmptySite]
    /\ segs = <<>>
    /\ fieldXml = <<>>
    /\ lastIndex = 0
    /\ tokPc = "idle"

Next ==
    \/ ProvisionObjects
    \/ EnsureReturns
    \/ AddAvailableContentTypeReturns
    \/ ContentTypesGetReturns
    \/ ContentTypeDeleteReturns
    \/ FieldGetByIdReturns
    \/ FieldDeleteReturns
    \/ CreateFieldAsXmlReturns
    \/ FieldUpdateReturns
    \/ FieldRefUpdateReturns
    \/ ViewGetReturns
    \/ ViewUpdateReturns
    \/ ViewsAddReturns
    \/ ViewFieldsRemoveAllReturns
    \/ ViewFieldsAddReturns

Spec == Init /\ [][Next]_vars

(***************************************************************************)
(* Claims about ProvisionObjects (checked under Spec).                     *)
(***************************************************************************)
\* The phase a remote call belongs to, by the call itself: 1 lists (ensure
\* and content types), 2 fields, 3 field refs, 4 views.
OpPhase(op) ==
    CASE op \in {"ensure", "addAvailableContentType", "contentTypes.get",
                 "contentType.delete"} -> 1
      [] op \in {"fields.getById", "field.delete", "createFieldAsXml", "field.update"} -> 2
      [] op = "fieldRef.update" -> 3
      [] OTHER -> 4

CallsOfRun(r) == {i \in 1..Len(calls) : calls[i].run = r}
InFlight == {i \in 1..Len(calls) : calls[i].st = "inflight"}

\* processList of list li has completed in run r: ensure and every binding
\* succeeded and none of its calls is in flight.
ListProcessed(r, li) ==
    /\ \E i \in CallsOfRun(r) : calls[i].op = "ensure" /\ calls[i].li = li /\ calls[i].st = "ok"
    /\ \A i \in CallsOfRun(r) : (OpPhase(calls[i].op) = 1 /\ calls[i].li = li) => calls[i].st = "ok"
    /\ lists[li].ContentTypeBindings.def =>
          \A k \in 1..Len(lists[li].ContentTypeBindings.val) :
             \E i \in CallsOfRun(r) : /\ calls[i].op = "addAvailableContentType"
                                      /\ calls[i].li = li /\ calls[i].k = k

\* C1: in one run the phases are separated by barriers.  Of two calls of a
\* run, the later issued is of the same or a later phase, and within a phase
\* of the same or a later list; when a call of a later phase is issued no
\* call of an earlier phase is in flight; and once a field, field-ref or
\* view call is issued, processList has completed for every configured list.
C1_PhaseBarriers ==
    \A j \in 1..Len(calls) :
       /\ \A i \in 1..(j - 1) :
             calls[i].run = calls[j].run =>
                /\ OpPhase(calls[i].op) <= OpPhase(calls[j].op)
                /\ OpPhase(calls[i].op) = OpPhase(calls[j].op) => calls[i].li <= calls[j].li
                /\ OpPhase(calls[i].op) < OpPhase(calls[j].op) => calls[i].st # "inflight"
       /\ (OpPhase(calls[j].op) > 1 /\ calls[j].run = run) =>
             \A li \in 1..Len(lists) : ListProcessed(run, li)

\* C1's case: a run over two lists resolved after calls of all four phases.
C1_Witness ==
    /\ result = "resolved"
    /\ Len(lists) = 2
    /\ \A ph \in 1..4 : \E i \in CallsOfRun(run) : OpPhase(calls[i].op) = ph

\* C2: no field, field-ref, view or view-field call is issued against a list
\* title unless web.lists.ensure for that list has returned successfully
\* earlier in the same run.
C2_ListEnsuredBeforeDependents ==
    \A j \in 1..Len(calls) :
       OpPhase(calls[j].op) > 1 =>
          \E i \in 1..(j - 1) : /\ calls[i].run = calls[j].run
                                /\ calls[i].op = "ensure"
                                /\ calls[i].title = calls[j].title
                                /\ calls[i].st = "ok"

\* C2's case: a view-field call in flight in a second run.
C2_Witness ==
    /\ run = 2
    /\ pc.op = "viewFields.add"
    /\ calls[pc.n].st = "inflight"

\* C3 (as claimed): at most one remote call of the handler is in flight.
C3_AtMostOneInFlight == Cardinality(InFlight) <= 1

\* C5 (as claimed): a second run with the same configuration and no remote
\* failure leaves the web as the first run left it.
C5_SecondRunChangesNothing ==
    (run = 2 /\ result = "resolved" /\ firstRun.result = "resolved" /\ faults = 0)
        => site = firstRun.site

\* The entries of processField / processView for item k of list li in run r.
ItemCalls(r, li, k, ops) ==
    {i \in CallsOfRun(r) : calls[i].li = li /\ calls[i].k = k /\ calls[i].op \in ops}

\* C6 (as claimed): a failed getById or delete in processField is not
\* propagated (ProvisionObjects does not reject with it) and
\* createFieldAsXml is still issued for the field, and after it the Title
\* update; every createFieldAsXml comes after the delete attempt.
C6_FieldDeleteFailureIgnored ==
    \A i \in 1..Len(calls) :
       /\ (calls[i].op \in {"fields.getById", "field.delete"} /\ calls[i].st = "failed") =>
             /\ ~(calls[i].run = run /\ result = "rejected" /\ error = i)
             /\ \E j \in ItemCalls(calls[i].run, calls[i].li, calls[i].k, {"createFieldAsXml"}) :
                   /\ j > i
                   /\ calls[j].st = "ok" =>
                         \E u \in ItemCalls(calls[i].run, calls[i].li, calls[i].k,
                                            {"field.update"}) : u > j
       /\ calls[i].op = "createFieldAsXml" =>
             \E g \in ItemCalls(calls[i].run, calls[i].li, calls[i].k, {"fields.getById"}) :
                g < i

\* C7 (as claimed): views.add is issued for a view if and only if the get
\* of that view failed.
C7_ViewAddedOnlyWhenGetFailed ==
    \A g \in 1..Len(calls) :
       calls[g].op = "view.get" =>
          LET adds == ItemCalls(calls[g].run, calls[g].li, calls[g].k, {"views.add"})
          IN  /\ calls[g].st = "failed" => adds # {}
              /\ calls[g].st = "ok" => adds = {}

\* The failures processField and processView catch.
Caught(c) == c.op \in {"fields.getById", "field.delete"} \/ c.path = "try"

\* C8 (as claimed): when a remote call fails outside the field existence
\* check and the try block of processView, ProvisionObjects rejects with
\* that error, and the run issues no call of a later item or phase after it.
C8_ErrorsBubbleUp ==
    \A i \in CallsOfRun(run) :
       (calls[i].st = "failed" /\ ~Caught(calls[i])) =>
          /\ result = "rejected"
          /\ error = i
          /\ \A j \in CallsOfRun(run) :
                j > i => /\ calls[j].op = "contentType.delete"
                         /\ calls[i].op = "contentType.delete"
                         /\ calls[j].li = calls[i].li

\* C9: the cache is append-only.  A step either leaves the cache alone or
\* is the successful return of web.lists.ensure, which appends that list's
\* data and nothing else, keeping every earlier entry in place; every
\* successful ensure appends; so the cache holds one entry per successful
\* ensure, in their order, and the entry of a list is in it when a
\* content-type call of that list is issued.
EnsuredOk == SelectSeq(calls, LAMBDA c : c.op = "ensure" /\ c.st = "ok")

C9_CacheAppendOnly ==
    /\ [](/\ Len(cache) = Len(EnsuredOk)
          /\ \A i \in 1..Len(cache) : cache[i].Title = EnsuredOk[i].title
          /\ \A j \in 1..Len(calls) :
                calls[j].op \in {"addAvailableContentType", "contentTypes.get",
                                 "contentType.delete"} =>
                   \E i \in 1..Len(cache) : cache[i].Title = calls[j].title)
    /\ [][ /\ (pc.op = "ensure" /\ calls'[pc.n].st = "ok") <=> cache' # cache
           /\ cache' # cache =>
                 /\ Len(cache') = Len(cache) + 1
                 /\ SubSeq(cache', 1, Len(cache)) = cache
                 /\ cache'[Len(cache')].Title = lists[pc.li].Title ]_vars

\* C9's case: a second run has appended to the cache the first run filled.
C9_Witness ==
    /\ run = 2
    /\ Len(cache) = 4
    /\ cache[1].Title # cache[2].Title

\* C11: in the first run on a fresh handler (the configured titles are
\* pairwise distinct), once a field call is issued the cache holds exactly
\* one entry for every configured list; so filter finds one entry for a
\* {listid:Name} token naming a configured list, one configured later
\* included, and createFieldAsXml is given the XML with that list's Id in
\* the token's place.
C11_CacheCompleteForFields ==
    (run = 1 /\ \E i \in CallsOfRun(1) : OpPhase(calls[i].op) = 2) =>
        /\ Len(cache) = Len(lists)
        /\ \A li \in 1..Len(lists) :
              Cardinality({c \in 1..Len(cache) : cache[c].Title = lists[li].Title}) = 1
        /\ \A i \in CallsOfRun(1) : \A lj \in 1..Len(lists) :
              LET f == lists[calls[i].li].Fields.val[calls[i].k]
              IN  (/\ calls[i].op = "createFieldAsXml"
                   /\ f.List = <<"{","l","i","s","t","i","d",":">> \o lists[lj].Title \o <<"}">>)
                  => /\ Len(FilterByTitle(cache, lists[lj].Title)) = 1
                     /\ calls[i].arg = Json2Xml([f EXCEPT !.List = ListGuid(lists[lj].Title)])

\* C11's case: in the first run createFieldAsXml is issued for a field of
\* the first list whose token names the second list.
C11_Witness ==
    /\ run = 1
    /\ Len(lists) = 2
    /\ \E i \in CallsOfRun(1) :
          /\ calls[i].op = "createFieldAsXml"
          /\ calls[i].li = 1
          /\ lists[1].Fields.val[calls[i].k].List = TokListIdB
          /\ lists[2].Title = TitleB
          /\ Contains(calls[i].arg, ListGuid(TitleB))

\* C12: processView leaves the view it operated on with exactly the
\* configured ViewFields, in their order.  A view-field add is issued only
\* when the call before it on that view has returned successfully: removeAll
\* before the first add, the add of the field before it otherwise, with no
\* other view-field call in flight; and when the last of them returns
\* successfully (processView completes) the view got by title on the update
\* path, the view just added on the create path, holds the configured
\* fields.
C12_ViewFieldsAsConfigured ==
    [][ /\ (pc'.op = "viewFields.add" /\ pc'.n # pc.n) =>
              /\ pc.li = pc'.li /\ pc.k = pc'.k /\ pc.path = pc'.path
              /\ calls'[pc.n].st = "ok"
              /\ IF pc'.vf = 1 THEN pc.op = "viewFields.removeAll"
                 ELSE pc.op = "viewFields.add" /\ pc.vf = pc'.vf - 1
              /\ \A i \in 1..Len(calls') :
                    (calls'[i].op \in {"viewFields.removeAll", "viewFields.add"} /\ i # pc'.n)
                        => calls'[i].st # "inflight"
        /\ (/\ pc.op \in {"viewFields.removeAll", "viewFields.add"}
            /\ calls'[pc.n].st = "ok"
            /\ \/ pc.op = "viewFields.removeAll" /\ Len(CurView.ViewFields) = 0
               \/ pc.op = "viewFields.add" /\ pc.vf = Len(CurView.ViewFields)) =>
              LET mine == {i \in 1..Len(site'.views) :
                              /\ site'.views[i].List = CurList.Title
                              /\ site'.views[i].Title = CurView.Title}
                  v    == IF pc.path = "try" THEN CHOOSE i \in mine : \A j \in mine : i <= j
                          ELSE Len(site'.views)
              IN  /\ v \in mine
                  /\ site'.views[v].Fields = CurView.ViewFields ]_vars

\* C12's case: a view was created in one run and updated in a later one,
\* and holds the two configured fields in their order.
C12_Witness ==
    /\ result = "resolved"
    /\ \E i \in 1..Len(calls) : \E j \in 1..Len(calls) :
          /\ calls[i].op = "views.add" /\ calls[i].st = "ok"
          /\ calls[j].op = "view.update" /\ calls[j].st = "ok"
          /\ calls[i].li = calls[j].li /\ calls[i].k = calls[j].k
          /\ calls[i].run < calls[j].run
          /\ \E v \in 1..Len(site.views) :
                /\ site.views[v].List = calls[j].title
                /\ site.views[v].Fields = lists[calls[j].li].Views.val[calls[j].k].ViewFields
                /\ Len(site.views[v].Fields) = 2

\* pat occurs in s as a run of consecutive characters.
HasSubstring(s, pat) ==
    \E i \in 0..(Len(s) - Len(pat)) : SubSeq(s, i + 1, i + Len(pat)) = pat

\* C13: content-type removal deletes exactly the unbound non-folder content
\* types.  Deletes are issued only when contentTypes.get returns, and then
\* for exactly those content types of the list whose ID holds no bound
\* ContentTypeID as a substring and does not hold "0x0120"; every delete is
\* of a list with ContentTypeBindings present and RemoveExistingContentTypes
\* true, and comes after the successful add of every binding of that list in
\* the same run; a list without ContentTypeBindings gets no delete.
C13_RemovesUnboundNonFolder ==
    /\ [](\A j \in 1..Len(calls) :
             calls[j].op = "contentType.delete" =>
                LET l == lists[calls[j].li]
                IN  /\ l.ContentTypeBindings.def
                    /\ l.RemoveExistingContentTypes
                    /\ \A k \in 1..Len(l.ContentTypeBindings.val) :
                          \E i \in 1..(j - 1) :
                             /\ calls[i].run = calls[j].run /\ calls[i].li = calls[j].li
                             /\ calls[i].op = "addAvailableContentType"
                             /\ calls[i].k = k /\ calls[i].st = "ok")
    /\ [][ LET new == {i \in (Len(calls) + 1)..Len(calls') :
                          calls'[i].op = "contentType.delete"}
           IN  /\ new # {} => pc.op = "contentTypes.get"
               /\ (pc.op = "contentTypes.get" /\ calls'[pc.n].st = "ok") =>
                     /\ \A i \in new : calls'[i].li = pc.li /\ calls'[i].run = run
                     /\ {calls'[i].arg : i \in new} =
                           {site.cts[CurList.Title][c] : c \in
                              {c \in 1..Len(site.cts[CurList.Title]) :
                                 /\ \A b \in 1..Len(CurList.ContentTypeBindings.val) :
                                       ~HasSubstring(site.cts[CurList.Title][c],
                                           CurList.ContentTypeBindings.val[b].ContentTypeID)
                                 /\ ~HasSubstring(site.cts[CurList.Title][c],
                                                  <<"0","x","0","1","2","0">>)}} ]_vars

\* C13's case: a run resolved after deleting the Item and Task content types
\* of a list bound to Document, whose folder content type and Document
\* child are still there, and after ensuring a list without bindings.
C13_Witness ==
    /\ result = "resolved"
    /\ Cardinality({j \in CallsOfRun(run) : calls[j].op = "contentType.delete"
                                            /\ calls[j].st = "ok"}) = 2
    /\ \E c \in 1..Len(site.cts[TitleA]) : HasSubstring(site.cts[TitleA][c], CtFolder)
    /\ \E c \in 1..Len(site.cts[TitleA]) : HasSubstring(site.cts[TitleA][c], CtDocument)
    /\ \E li \in 1..Len(lists) : ~lists[li].ContentTypeBindings.def
                                   /\ lists[li].RemoveExistingContentTypes

\* C14: scope bracketing.  In every run scope_started has been called once,
\* and scope_ended not yet while the run is pending and exactly once when it
\* has resolved or rejected; a remote call is issued only between the two
\* (after scope_started of its run, and never once scope_ended was called);
\* and scope_ended is called in the very step that settles the run.
C14_ScopeBracketsRun ==
    /\ [](IF run = 0 THEN scope = [started |-> 0, ended |-> 0] /\ calls = <<>>
          ELSE /\ scope.started = 1
               /\ scope.ended = IF result = "pending" THEN 0 ELSE 1)
    /\ [][ /\ Len(calls') > Len(calls) =>
                 /\ scope'.started = 1 /\ scope'.ended = 0
                 /\ \A i \in (Len(calls) + 1)..Len(calls') : calls'[i].run = run'
           /\ (run' = run /\ scope.ended = 1) => (Len(calls') = Len(calls) /\ scope' = scope)
           /\ run' = run => scope'.started = scope.started
           /\ (run' = run /\ scope'.ended # scope.ended) =>
                 /\ scope'.ended = scope.ended + 1
                 /\ result = "pending" /\ result' \in {"resolved", "rejected"} ]_vars

\* C14's case: a run has rejected while one of its calls was still in
\* flight; scope_ended was called once in it.
C14_Witness ==
    /\ result = "rejected"
    /\ scope = [started |-> 1, ended |-> 1]
    /\ \E i \in CallsOfRun(run) : calls[i].st = "inflight"

\* C15 (as claimed): the shipped build and the source are behaviourally
\* equivalent.  The two read the same but for the chain's continuation, so
\* run side by side on the same configuration, web and outcomes they are in
\* the same state until their continuations differ: they issue the same
\* calls and settle alike exactly when, in every state either reaches and
\* for either outcome of the awaited call, both continue with the same call
\* or the same settlement.
C15_BuildsAgree ==
    (result = "pending" /\ pc.op \notin {"contentTypes.get", "contentType.delete"}) =>
        \A ok \in BOOLEAN :
           ContinueIn("ts", lists, pc, ok) = ContinueIn("js", lists, pc, ok)

(***************************************************************************)
(* replaceFieldXmlTokens on its own: the while loop, one iteration a step, *)
(* over field XML built of up to MaxSegs segments and caches of up to two  *)
(* entries, with identifiers shorter than, as long as and longer than a    *)
(* token.                                                                  *)
(***************************************************************************)
TokSegments == {TokListIdA, TokListIdB, TokWebA, <<"x">>, <<"{">>}
TokInputs == UNION {[1..n -> TokSegments] : n \in 0..MaxSegs}

IdShort == <<"7">>
IdSame  == <<"0","1","2","3","4","5","6","7","8","9">>
TokIds  == {IdShort, IdSame, ListGuid(TitleA)}
TokEntries == [Title : AllTitles, Id : TokIds]
TokCaches == {<<>>} \cup {<<e>> : e \in TokEntries}
                    \cup {<<e, f>> : e \in TokEntries, f \in TokEntries}

InitTok ==
    /\ build = "ts"
    /\ lists = <<>>
    /\ site = EmptySite
    /\ cache \in TokCaches
    /\ pc = Idle
    /\ calls = <<>>
    /\ run = 0
    /\ result = "none"
    /\ error = 0
    /\ scope = [started |-> 0, ended |-> 0]
    /\ faults = 0
    /\ firstRun = [result |-> "none", site |-> EmptySite]
    /\ segs \in TokInputs
    /\ fieldXml = <<>>
    /\ lastIndex = 0
    /\ tokPc = "idle"

TokUnchanged ==
    UNCHANGED <<build, lists, site, cache, pc, calls, run, result, error, scope,
                faults, firstRun, segs>>

\* replaceFieldXmlTokens(fieldXml) is entered.
TokenCall ==
    /\ tokPc = "idle"
    /\ fieldXml' = Flatten(segs)
    /\ tokPc' = "loop"
    /\ UNCHANGED lastIndex
    /\ TokUnchanged

\* exec finds a match: the loop body runs.
TokenLoopIteration ==
    /\ tokPc = "loop"
    /\ RegexExec(fieldXml, lastIndex).found
    /\ LET st == TokenLoopStep([fieldXml |-> fieldXml, lastIndex |-> lastIndex,
                                done |-> FALSE], cache)
       IN  fieldXml' = st.fieldXml /\ lastIndex' = st.lastIndex
    /\ UNCHANGED tokPc
    /\ TokUnchanged

\* exec returns null: return fieldXml.
TokenLoopExit ==
    /\ tokPc = "loop"
    /\ ~RegexExec(fieldXml, lastIndex).found
    /\ lastIndex' = TokenLoopStep([fieldXml |-> fieldXml, lastIndex |-> lastIndex,
                                   done |-> FALSE], cache).lastIndex
    /\ tokPc' = "returned"
    /\ UNCHANGED fieldXml
    /\ TokUnchanged

NextTok == TokenCall \/ TokenLoopIteration \/ TokenLoopExit

SpecTok == InitTok /\ [][NextTok]_vars

(***************************************************************************)
(* Claims about replaceFieldXmlTokens (checked under SpecTok).             *)
(***************************************************************************)
\* A segment is a resolvable listid token when it reads {listid:Name} and
\* exactly one cache entry has Title = Name.
TokenOf(title) == <<"{","l","i","s","t","i","d",":">> \o title \o <<"}">>
Matches(c, title) == {i \in 1..Len(c) : c[i].Title = title}
ResolvableSeg(seg, c) ==
    \E t \in AllTitles : seg = TokenOf(t) /\ Cardinality(Matches(c, t)) = 1
IdFor(seg, c) ==
    LET t == CHOOSE t \in AllTitles : seg = TokenOf(t)
    IN  c[CHOOSE i \in Matches(c, t) : TRUE].Id

\* C4 (as claimed): when replaceFieldXmlTokens returns, no {listid:Name}
\* whose Name has exactly one cache entry is left in the string, and each
\* such token has been replaced by that entry's Id.
C4_EveryTokenReplaced ==
    tokPc = "returned" =>
        /\ \A t \in AllTitles :
              Cardinality(Matches(cache, t)) = 1 => ~Contains(fieldXml, TokenOf(t))
        /\ fieldXml = Flatten([i \in 1..Len(segs) |->
                          IF ResolvableSeg(segs[i], cache) THEN IdFor(segs[i], cache)
                          ELSE segs[i]])

\* The strings that differ from the argument at resolvable listid tokens
\* only: each of them kept or replaced by its list's Id.
FrameResults(ss, c) ==
    LET R == {i \in 1..Len(ss) : ResolvableSeg(ss[i], c)}
    IN  {Flatten([i \in 1..Len(ss) |-> IF i \in K THEN IdFor(ss[i], c) ELSE ss[i]])
         : K \in SUBSET R}

\* C10: replaceFieldXmlTokens changes nothing but resolvable listid tokens:
\* tokens of another type, listid tokens whose Name has no or several cache
\* entries and all other characters stay as they are and in their order,
\* throughout the loop and in the returned string; with an empty cache the
\* returned string is the argument.
C10_OnlyResolvableTokensChange ==
    tokPc \in {"loop", "returned"} =>
        /\ fieldXml \in FrameResults(segs, cache)
        /\ (cache = <<>> => fieldXml = Flatten(segs))

\* C10's case: a call that returned, replaced a token, and left a token of
\* another type and a listid token without a single cache entry in place.
C10_Witness ==
    /\ tokPc = "returned"
    /\ fieldXml # Flatten(segs)
    /\ \E i \in 1..Len(segs) : segs[i] = TokWebA
    /\ \E i \in 1..Len(segs) : \E t \in AllTitles :
          segs[i] = TokenOf(t) /\ Cardinality(Matches(cache, t)) # 1

(***************************************************************************)
(* Termination.  ProvisionObjects when every remote call in flight         *)
(* eventually returns; and the loop of replaceFieldXmlTokens, which as a   *)
(* synchronous loop always takes its next step, where the cache may also   *)
(* hold an Id with a token in it.                                          *)
(* The string of the loop can grow without bound.  Once it is longer than  *)
(* MaxXml, a step keeps the part of it the loop can still read: exec       *)
(* searches from lastIndex on, and replace changes the first occurrence of *)
(* a token it resolves; the text before both is never read again, and      *)
(* lastIndex counts from where the kept text starts.                       *)
(* Weak fairness of an action A is []<>~ENABLED <<A>>_vars \/              *)
(* []<><<A>>_vars; for the returns of calls and for the loop's step the    *)
(* enabling condition is written out (a call is in flight; the loop is     *)
(* running), which asks no less of a behaviour than WF_vars(A) does.       *)
(***************************************************************************)
MaxXml == 40

\* The return of any remote call in flight.
AnyReturn ==
    \/ EnsureReturns
    \/ AddAvailableContentTypeReturns
    \/ ContentTypesGetReturns
    \/ ContentTypeDeleteReturns
    \/ FieldGetByIdReturns
    \/ FieldDeleteReturns
    \/ CreateFieldAsXmlReturns
    \/ FieldUpdateReturns
    \/ FieldRefUpdateReturns
    \/ ViewGetReturns
    \/ ViewUpdateReturns
    \/ ViewsAddReturns
    \/ ViewFieldsRemoveAllReturns
    \/ ViewFieldsAddReturns

\* Every remote call eventually settles; ProvisionObjects is called or not.
SpecFair ==
    /\ Spec
    /\ ([]<>(InFlight = {}) \/ []<><<AnyReturn>>_vars)

\* An Id made of ten characters and a listid token of its own list.
IdWithToken == IdSame \o TokListIdA
TokCachesAnyId == TokCaches \cup {<<[Title |-> TitleA, Id |-> IdWithToken]>>}

\* The tokens replace is called for: {listid:Title} of a Title with one entry.
ReplacedTokens(c) ==
    {<<"{","l","i","s","t","i","d",":">> \o c[i].Title \o <<"}">> :
        i \in {i \in 1..Len(c) : FoundLength1(FilterByTitle(c, c[i].Title))}}

\* The text of xml the loop can still read: from lastIndex, or from the first
\* token replace may find, whichever comes first.
Window(xml, li, c) ==
    LET starts == {IndexOf(xml, t) : t \in ReplacedTokens(c)} \ {-1}
        d      == IF \E i \in starts : i < li
                  THEN CHOOSE i \in starts : \A j \in starts : i <= j
                  ELSE li
    IN  [fieldXml |-> SubSeq(xml, d + 1, Len(xml)), lastIndex |-> li - d]

InitTokAnyId ==
    /\ build = "ts"
    /\ lists = <<>>
    /\ site = EmptySite
    /\ cache \in TokCachesAnyId
    /\ pc = Idle
    /\ calls = <<>>
    /\ run = 0
    /\ result = "none"
    /\ error = 0
    /\ scope = [started |-> 0, ended |-> 0]
    /\ faults = 0
    /\ firstRun = [result |-> "none", site |-> EmptySite]
    /\ segs \in TokInputs
    /\ fieldXml = <<>>
    /\ lastIndex = 0
    /\ tokPc = "idle"

\* exec finds a match: the loop body runs.
TokenLoopIterationWindow ==
    /\ tokPc = "loop"
    /\ RegexExec(fieldXml, lastIndex).found
    /\ LET st == TokenLoopStep([fieldXml |-> fieldXml, lastIndex |-> lastIndex,
                                done |-> FALSE], cache)
           w  == IF Len(st.fieldXml) > MaxXml
                 THEN Window(st.fieldXml, st.lastIndex, cache)
                 ELSE [fieldXml |-> st.fieldXml, lastIndex |-> st.lastIndex]
       IN  fieldXml' = w.fieldXml /\ lastIndex' = w.lastIndex
    /\ UNCHANGED tokPc
    /\ TokUnchanged

NextTokFair == TokenCall \/ TokenLoopIterationWindow \/ TokenLoopExit

\* replaceFieldXmlTokens is called, and the loop goes on while it runs.
SpecTokFair ==
    /\ InitTokAnyId /\ [][NextTokFair]_vars
    /\ WF_vars(TokenCall)
    /\ ([]<>(tokPc # "loop") \/ []<><<TokenLoopIterationWindow \/ TokenLoopExit>>_vars)

\* C16 (as claimed), the loop: replaceFieldXmlTokens returns, for every field
\* XML and every cache content, Ids with a token in them included.
C16_TokenLoopTerminates == <>(tokPc = "returned")

\* C16, ProvisionObjects: a run that has started resolves or rejects.
C16_RunSettles == (result = "pending") ~> (result # "pending")

====
